---- MODULE Spec2Model ----
(***************************************************************************)
(* TouchSDF: the training driver (model/train.py), the latent-code         *)
(* inference script (scripts/test_infershape_adam_lbfgs.py) and the mesh   *)
(* toolkit (utils/utils_mesh.py) as state machines.                        *)
(*                                                                         *)
(* Five specifications share the variables; each runs one program and      *)
(* leaves the other programs' variables idle:                              *)
(*   SpecTrain  Trainer.__call__                                           *)
(*   SpecInfer  main() of the inference script                             *)
(*   SpecData   get_data() of the inference script                         *)
(*   SpecMesh   urdf_to_mesh()                                             *)
(*   SpecXform  translate_rotate_mesh()                                    *)
(*                                                                         *)
(* Numbers: tensors hold integers.  Latent codes and gradients are in      *)
(* units of the learning rate, coordinates in units of 0.01, signed        *)
(* distances in units of 0.0001.                                           *)
(***************************************************************************)
EXTENDS Integers, Sequences, FiniteSets, TLC

VARIABLES
    \* ---- Trainer (model/train.py) ----
    targs,          \* self.args and the dataset: epochs, batch_size, latent_size, data_len, num_classes
    device,         \* "cpu" or "cuda" (train.py line 18)
    tpc,            \* position of Trainer.__call__
    interrupted,    \* the process was killed from outside
    epoch,          \* self.epoch
    batch_i,        \* batches of the current loader already consumed
    iterations,     \* iterations (train/validate local)
    total_loss,     \* total_loss (train/validate local)
    latent_codes,   \* self.latent_codes: class index -> row
    grad,           \* self.latent_codes.grad ("None" before the first backward)
    unique_latent_indexes_batch,   \* class indexes present in the current batch
    model,          \* decoder parameters, as the number of optimizer_model steps applied
    results,        \* self.results
    results_npy,    \* run_dir/results.npy
    weights_pt,     \* run_dir/weights.pt
    grad_backward,      \* history: the gradient as loss_value.backward() left it
    codes_before_step,  \* history: latent_codes before the last optimizer step
    epoch_end_codes     \* history: latent_codes at the end of each epoch's training pass
    ,
    \* ---- main() of scripts/test_infershape_adam_lbfgs.py ----
    args,               \* the args object: has_args, lr, lr_multiplier (in halves), epochs, lr_scheduler
    ipc,                \* position of main
    i_epoch,            \* epoch of the prediction loop
    latent_code,        \* the latent code being optimised
    x_latent,           \* the latent code tiled into x at the head of the epoch
    loss_value,         \* loss_value
    best_loss,          \* best_loss
    best_latent_code,   \* best_latent_code: <<>> while unbound, then <<value>>
    latent_code_pt,     \* test_path/latent_code.pt: <<>> while absent, then <<value>>
    scheduler_steps,    \* calls of scheduler_latent.step
    phases,             \* history: the phase each epoch ran
    losses,             \* history: the loss logged in each epoch
    clone_epochs,       \* history: the epochs that cloned the latent code
    sdf_gt,             \* sdf_gt as get_data returned it (line 141)
    gt_before_clamp,    \* history: sdf_gt in get_data before lines 86-87
    loss_calls,         \* history: the arguments of each SDFLoss_multishape call of the epoch
    decoder,            \* the parameters of model (the decoder)
    checkpoint,         \* the state_dict read from weights.pt (line 123)
    results_dict,       \* results_dict read from results.npy (line 127)
    normal_draw         \* history: the value torch.normal returned (line 24)
    ,
    \* ---- get_data() of scripts/test_infershape_adam_lbfgs.py ----
    dargs,              \* args.index_objs_dict, args.touches and len(objs)
    dpc,                \* position of get_data
    random_obj,         \* position in objs of the object selected
    chosen_by,          \* history: "index" or "random"
    coords_temp,        \* coords_temp (sampler output)
    sdf_temp,           \* sdf_temp (sampler output)
    coords_array,       \* coords_array
    sdf_gt_array,       \* sdf_gt_array
    voxel_coords_all,   \* voxel_coords_all
    voxel_sdf_all,      \* voxel_sdf_all
    touch_i,            \* touches done
    retained,           \* history: the retained samples (coords_array, sdf_gt_array after the filter)
    centres,            \* history: idx_centre of each touch
    sdf_gt_returned     \* sdf_gt, the tensor get_data returns
    ,
    \* ---- urdf_to_mesh() of utils/utils_mesh.py ----
    mesh_list,          \* mesh_list: each sub-mesh's vertex count and faces
    mpc,                \* position of urdf_to_mesh
    faces_offset,       \* faces_offset
    verts,              \* verts: the stacked blocks, (sub-mesh, vertex count) in order
    faces               \* faces: the merged face array
    ,
    \* ---- translate_rotate_mesh() of utils/utils_mesh.py ----
    pos_wrld_list,      \* pos_wrld_list, shape (m, 3)
    rot_M_wrld_list,    \* rot_M_wrld_list, shape (m, 3, 3)
    pointclouds_list,   \* pointclouds_list, shape (m, number_points, 3)
    obj_initial_pos,    \* obj_initial_pos, length 3
    xpc,                \* position of translate_rotate_mesh
    arr_a,              \* a
    arr_b,              \* b
    arr_c,              \* c
    pointcloud_wrld,    \* pointcloud_wrld (the return value)
    given               \* history: the four arguments as they were passed

trainVars == <<targs, device, tpc, interrupted, epoch, batch_i, iterations, total_loss,
               latent_codes, grad, unique_latent_indexes_batch, model, results,
               results_npy, weights_pt, grad_backward, codes_before_step, epoch_end_codes>>

inferVars == <<args, ipc, i_epoch, latent_code, x_latent, loss_value, best_loss,
               best_latent_code, latent_code_pt, scheduler_steps, phases, losses,
               clone_epochs, sdf_gt, gt_before_clamp, loss_calls, decoder, checkpoint,
               results_dict, normal_draw>>

dataVars == <<dargs, dpc, random_obj, chosen_by, coords_temp, sdf_temp, coords_array,
              sdf_gt_array, voxel_coords_all, voxel_sdf_all, touch_i, retained, centres,
              sdf_gt_returned>>

meshVars == <<mesh_list, mpc, faces_offset, verts, faces>>

xformVars == <<pos_wrld_list, rot_M_wrld_list, pointclouds_list, obj_initial_pos, xpc,
               arr_a, arr_b, arr_c, pointcloud_wrld, given>>

vars == <<trainVars, inferVars, dataVars, meshVars, xformVars>>

\* A program that a specification does not run stays idle.
TrainIdle ==
    /\ targs = <<>> /\ device = "cpu" /\ tpc = "idle" /\ interrupted = FALSE
    /\ epoch = 0 /\ batch_i = 0 /\ iterations = 0 /\ total_loss = 0
    /\ latent_codes = <<>> /\ grad = "None" /\ unique_latent_indexes_batch = {}
    /\ model = 0 /\ results = <<>> /\ results_npy = <<>> /\ weights_pt = <<>>
    /\ grad_backward = "None" /\ codes_before_step = <<>> /\ epoch_end_codes = <<>>

InferIdle ==
    /\ args = <<>> /\ ipc = "idle" /\ i_epoch = 0 /\ latent_code = 0 /\ x_latent = 0
    /\ loss_value = 0 /\ best_loss = 0 /\ best_latent_code = <<>>
    /\ latent_code_pt = <<>> /\ scheduler_steps = 0 /\ phases = <<>>
    /\ losses = <<>> /\ clone_epochs = {}
    /\ sdf_gt = <<>> /\ gt_before_clamp = <<>> /\ loss_calls = <<>> /\ decoder = 0
    /\ checkpoint = 0 /\ results_dict = <<>> /\ normal_draw = 0

DataIdle ==
    /\ dargs = <<>> /\ dpc = "idle" /\ random_obj = 0 /\ chosen_by = "none"
    /\ coords_temp = <<>> /\ sdf_temp = <<>> /\ coords_array = <<>> /\ sdf_gt_array = <<>>
    /\ voxel_coords_all = <<>> /\ voxel_sdf_all = <<>> /\ touch_i = 0
    /\ retained = <<>> /\ centres = <<>> /\ sdf_gt_returned = <<>>

MeshIdle ==
    /\ mesh_list = <<>> /\ mpc = "idle" /\ faces_offset = <<>> /\ verts = <<>>
    /\ faces = <<>>

XformIdle ==
    /\ pos_wrld_list = <<>> /\ rot_M_wrld_list = <<>> /\ pointclouds_list = <<>>
    /\ obj_initial_pos = <<>> /\ xpc = "idle" /\ arr_a = <<>> /\ arr_b = <<>>
    /\ arr_c = <<>> /\ pointcloud_wrld = <<>> /\ given = <<>>

-----------------------------------------------------------------------------
(* Bounds *)
MaxEpochs == 2
MaxClasses == 2
MaxLatent == 1

\* (len(data), batch_size) pairs: 20 samples in batches of 5 is the spec's
\* end-to-end scenario; 2 and 3 samples in batches of 1 give a non-empty
\* validation loader.
DataConfigs == {<<20, 5>>, <<3, 1>>, <<2, 1>>}

\* Values one component of a latent-code gradient row can take after backward().
GradVals == {0, 1}

-----------------------------------------------------------------------------
(* Trainer.get_loaders *)

\* train_size = int(0.8 * len(data))
TrainSize(data_len) == (8 * data_len) \div 10

\* val_size = len(data) - train_size
ValSize(data_len) == data_len - TrainSize(data_len)

\* number of batches a DataLoader(drop_last=True) yields
NumBatches(size, batch_size) == size \div batch_size

NumTrainBatches == NumBatches(TrainSize(targs.data_len), targs.batch_size)
NumValBatches == NumBatches(ValSize(targs.data_len), targs.batch_size)

-----------------------------------------------------------------------------
(* Trainer: tensors *)

ClassIndexes == 0 .. (targs.num_classes - 1)

\* a row of the latent-code matrix (or of its gradient) with every component v
Row(v) == [j \in 1 .. targs.latent_size |-> v]

ZeroRow == Row(0)

\* utils.generate_latent_codes: one row per class key
InitialLatentCodes == [i \in ClassIndexes |-> ZeroRow]

\* lines 126-130 with the membership test inverted
MaskGradients_Inverted(g, unique) ==
    [i \in DOMAIN g |-> IF i \in unique THEN ZeroRow ELSE g[i]]

\* lines 126-130: zero the gradient rows of the classes that are not in the batch
MaskGradients(g, unique) ==
    [i \in DOMAIN g |-> IF i \notin unique THEN ZeroRow ELSE g[i]]

\* optim.SGD(lr, weight_decay=0).step(): p <- p - lr * p.grad, in place
SGDStep(codes, g) ==
    [i \in DOMAIN codes |-> [j \in DOMAIN codes[i] |-> codes[i][j] - g[i][j]]]

\* self.latent_codes.detach().cpu().numpy(): on a CPU tensor detach(), cpu()
\* and numpy() all return views of the tensor's own storage; from an
\* accelerator cpu() copies.
Snapshot(codes) ==
    IF device = "cpu" THEN [shares_memory |-> TRUE, data |-> <<>>]
    ELSE [shares_memory |-> FALSE, data |-> codes]

\* the value an array of the results record holds now
ArrayValue(a) == IF a.shares_memory THEN latent_codes ELSE a.data

EmptyResults ==
    [train |-> [loss |-> <<>>, latent_codes |-> <<>>], val |-> [loss |-> <<>>]]

\* np.save pickles the record: every array is written with its current value
Pickled(res) ==
    [train |-> [loss |-> res.train.loss,
                latent_codes |-> [k \in 1 .. Len(res.train.latent_codes) |->
                                    ArrayValue(res.train.latent_codes[k])]],
     val |-> [loss |-> res.val.loss]]

Absent == [status |-> "absent", epochs |-> 0, content |-> <<>>]

-----------------------------------------------------------------------------
(* Trainer.__call__ *)

TrainInit ==
    /\ \E e \in 0 .. MaxEpochs, c \in DataConfigs, l \in 1 .. MaxLatent, n \in 1 .. MaxClasses :
          /\ n <= c[1]
          /\ targs = [epochs |-> e, data_len |-> c[1], batch_size |-> c[2],
                      latent_size |-> l, num_classes |-> n]
    /\ device \in {"cpu", "cuda"}
    /\ tpc = "epoch_loop"
    /\ interrupted = FALSE
    /\ epoch = 0
    /\ batch_i = 0
    /\ iterations = 0
    /\ total_loss = 0
    /\ latent_codes = InitialLatentCodes
    /\ grad = "None"
    /\ unique_latent_indexes_batch = {}
    /\ model = 0
    /\ results = EmptyResults
    /\ results_npy = Absent
    /\ weights_pt = Absent
    /\ grad_backward = "None"
    /\ codes_before_step = InitialLatentCodes
    /\ epoch_end_codes = <<>>
    /\ InferIdle /\ DataIdle /\ MeshIdle /\ XformIdle

Running == ~interrupted

\* line 53: for epoch in range(self.args.epochs); line 56 enters self.train
EpochLoop ==
    /\ Running /\ tpc = "epoch_loop"
    /\ IF epoch < targs.epochs
         THEN /\ tpc' = "train_loop"
              /\ batch_i' = 0 /\ iterations' = 0 /\ total_loss' = 0
         ELSE /\ tpc' = "done"
              /\ UNCHANGED <<batch_i, iterations, total_loss>>
    /\ UNCHANGED <<targs, device, interrupted, epoch, latent_codes, grad,
                   unique_latent_indexes_batch, model, results, results_npy, weights_pt,
                   grad_backward, codes_before_step, epoch_end_codes>>
    /\ UNCHANGED <<inferVars, dataVars, meshVars, xformVars>>

\* lines 115-125: next batch, zero_grad, forward, loss, backward
TrainBatch ==
    /\ Running /\ tpc = "train_loop" /\ batch_i < NumTrainBatches
    /\ iterations' = iterations + 1
    /\ \E unique \in (SUBSET ClassIndexes) \ {{}} :
          /\ Cardinality(unique) <= targs.batch_size
          /\ unique_latent_indexes_batch' = unique
    /\ \E g \in [ClassIndexes -> GradVals] :
          grad' = [i \in ClassIndexes |-> Row(g[i])]
    /\ grad_backward' = grad'
    /\ tpc' = "mask"
    /\ UNCHANGED <<targs, device, interrupted, epoch, batch_i, total_loss, latent_codes,
                   model, results, results_npy, weights_pt, codes_before_step,
                   epoch_end_codes>>
    /\ UNCHANGED <<inferVars, dataVars, meshVars, xformVars>>

\* lines 126-130
MaskGrad ==
    /\ Running /\ tpc = "mask"
    /\ grad' = MaskGradients(grad, unique_latent_indexes_batch)
    /\ tpc' = "optim"
    /\ UNCHANGED <<targs, device, interrupted, epoch, batch_i, iterations, total_loss,
                   latent_codes, unique_latent_indexes_batch, model, results, results_npy,
                   weights_pt, grad_backward, codes_before_step, epoch_end_codes>>
    /\ UNCHANGED <<inferVars, dataVars, meshVars, xformVars>>

\* lines 131-133
OptimStep ==
    /\ Running /\ tpc = "optim"
    /\ codes_before_step' = latent_codes
    /\ latent_codes' = SGDStep(latent_codes, grad)
    /\ model' = model + 1
    /\ total_loss' = total_loss + 1
    /\ batch_i' = batch_i + 1
    /\ tpc' = "train_loop"
    /\ UNCHANGED <<targs, device, interrupted, epoch, iterations, grad,
                   unique_latent_indexes_batch, results, results_npy, weights_pt,
                   grad_backward, epoch_end_codes>>
    /\ UNCHANGED <<inferVars, dataVars, meshVars, xformVars>>

\* lines 134-136 (total_loss/iterations raises ZeroDivisionError on an empty
\* loader), then lines 57-58 and the entry of self.validate
TrainEnd ==
    /\ Running /\ tpc = "train_loop" /\ batch_i = NumTrainBatches
    /\ IF iterations = 0
         THEN /\ tpc' = "ZeroDivisionError"
              /\ UNCHANGED <<results, epoch_end_codes, batch_i, iterations, total_loss>>
         ELSE /\ results' = [results EXCEPT
                    !.train.loss = Append(@, total_loss \div iterations),
                    !.train.latent_codes = Append(@, Snapshot(latent_codes))]
              /\ epoch_end_codes' = Append(epoch_end_codes, latent_codes)
              /\ tpc' = "val_loop"
              /\ batch_i' = 0 /\ iterations' = 0 /\ total_loss' = 0
    /\ UNCHANGED <<targs, device, interrupted, epoch, latent_codes, grad,
                   unique_latent_indexes_batch, model, results_npy, weights_pt,
                   grad_backward, codes_before_step>>
    /\ UNCHANGED <<inferVars, dataVars, meshVars, xformVars>>

\* lines 142-150 with the optimizer steps of the training pass added
ValBatch_WithStep ==
    /\ Running /\ tpc = "val_loop" /\ batch_i < NumValBatches
    /\ iterations' = iterations + 1
    /\ total_loss' = total_loss + 1
    /\ batch_i' = batch_i + 1
    /\ latent_codes' = SGDStep(latent_codes, grad)
    /\ model' = model + 1
    /\ UNCHANGED <<targs, device, tpc, interrupted, epoch, grad,
                   unique_latent_indexes_batch, results, results_npy, weights_pt,
                   grad_backward, codes_before_step, epoch_end_codes>>
    /\ UNCHANGED <<inferVars, dataVars, meshVars, xformVars>>

\* lines 142-150: a validation batch (no zero_grad, no backward, no optimizer
\* step; self.model.train() of line 141 leaves the parameters alone)
ValBatch ==
    /\ Running /\ tpc = "val_loop" /\ batch_i < NumValBatches
    /\ iterations' = iterations + 1
    /\ total_loss' = total_loss + 1
    /\ batch_i' = batch_i + 1
    /\ UNCHANGED <<targs, device, tpc, interrupted, epoch, latent_codes, grad,
                   unique_latent_indexes_batch, model, results, results_npy, weights_pt,
                   grad_backward, codes_before_step, epoch_end_codes>>
    /\ UNCHANGED <<inferVars, dataVars, meshVars, xformVars>>

\* lines 151-153, then line 62
ValEnd ==
    /\ Running /\ tpc = "val_loop" /\ batch_i = NumValBatches
    /\ IF iterations = 0
         THEN /\ tpc' = "ZeroDivisionError"
              /\ UNCHANGED results
         ELSE /\ results' = [results EXCEPT !.val.loss = Append(@, total_loss \div iterations)]
              /\ tpc' = "save_results"
    /\ UNCHANGED <<targs, device, interrupted, epoch, batch_i, iterations, total_loss,
                   latent_codes, grad, unique_latent_indexes_batch, model, results_npy,
                   weights_pt, grad_backward, codes_before_step, epoch_end_codes>>
    /\ UNCHANGED <<inferVars, dataVars, meshVars, xformVars>>

\* line 64: np.save opens results.npy for writing, which truncates it
SaveResultsBegin ==
    /\ Running /\ tpc = "save_results"
    /\ results_npy' = [status |-> "partial", epochs |-> 0, content |-> <<>>]
    /\ tpc' = "writing_results"
    /\ UNCHANGED <<targs, device, interrupted, epoch, batch_i, iterations, total_loss,
                   latent_codes, grad, unique_latent_indexes_batch, model, results,
                   weights_pt, grad_backward, codes_before_step, epoch_end_codes>>
    /\ UNCHANGED <<inferVars, dataVars, meshVars, xformVars>>

\* line 64: the record is written in full
SaveResultsEnd ==
    /\ Running /\ tpc = "writing_results"
    /\ results_npy' = [status |-> "complete", epochs |-> epoch + 1,
                       content |-> Pickled(results)]
    /\ tpc' = "save_weights"
    /\ UNCHANGED <<targs, device, interrupted, epoch, batch_i, iterations, total_loss,
                   latent_codes, grad, unique_latent_indexes_batch, model, results,
                   weights_pt, grad_backward, codes_before_step, epoch_end_codes>>
    /\ UNCHANGED <<inferVars, dataVars, meshVars, xformVars>>

\* line 65: torch.save opens weights.pt for writing
SaveWeightsBegin ==
    /\ Running /\ tpc = "save_weights"
    /\ weights_pt' = [status |-> "partial", epochs |-> 0, content |-> <<>>]
    /\ tpc' = "writing_weights"
    /\ UNCHANGED <<targs, device, interrupted, epoch, batch_i, iterations, total_loss,
                   latent_codes, grad, unique_latent_indexes_batch, model, results,
                   results_npy, grad_backward, codes_before_step, epoch_end_codes>>
    /\ UNCHANGED <<inferVars, dataVars, meshVars, xformVars>>

\* line 65 with the write left unfinished
SaveWeightsEnd_NotWritten ==
    /\ Running /\ tpc = "writing_weights"
    /\ epoch' = epoch + 1
    /\ tpc' = "epoch_loop"
    /\ UNCHANGED <<targs, device, interrupted, batch_i, iterations, total_loss,
                   latent_codes, grad, unique_latent_indexes_batch, model, results,
                   results_npy, weights_pt, grad_backward, codes_before_step,
                   epoch_end_codes>>
    /\ UNCHANGED <<inferVars, dataVars, meshVars, xformVars>>

\* line 65: the state_dict is written in full; the loop goes to the next epoch
SaveWeightsEnd ==
    /\ Running /\ tpc = "writing_weights"
    /\ weights_pt' = [status |-> "complete", epochs |-> epoch + 1, content |-> model]
    /\ epoch' = epoch + 1
    /\ tpc' = "epoch_loop"
    /\ UNCHANGED <<targs, device, interrupted, batch_i, iterations, total_loss,
                   latent_codes, grad, unique_latent_indexes_batch, model, results,
                   results_npy, grad_backward, codes_before_step, epoch_end_codes>>
    /\ UNCHANGED <<inferVars, dataVars, meshVars, xformVars>>

\* the run is stopped from outside (there is no handler: the process ends where it is)
Interrupt ==
    /\ Running /\ tpc \notin {"done", "ZeroDivisionError", "idle"}
    /\ interrupted' = TRUE
    /\ UNCHANGED <<targs, device, tpc, epoch, batch_i, iterations, total_loss,
                   latent_codes, grad, unique_latent_indexes_batch, model, results,
                   results_npy, weights_pt, grad_backward, codes_before_step,
                   epoch_end_codes>>
    /\ UNCHANGED <<inferVars, dataVars, meshVars, xformVars>>

TrainNext ==
    \/ EpochLoop
    \/ TrainBatch
    \/ MaskGrad
    \/ OptimStep
    \/ TrainEnd
    \/ ValBatch
    \/ ValEnd
    \/ SaveResultsBegin
    \/ SaveResultsEnd
    \/ SaveWeightsBegin
    \/ SaveWeightsEnd
    \/ Interrupt

SpecTrain == TrainInit /\ [][TrainNext]_vars

-----------------------------------------------------------------------------
(* main() of the inference script: the prediction loop *)

MaxInferEpochs == 3

\* line 143
BestLossInit == 1000000

\* args.lr in units of 0.001, args.lr_multiplier in halves (1 is 0.5, 2 is 1.0)
LrVals == {1, 2}
LrMultiplierHalves == {1, 2}

\* values of the loss (utils.SDFLoss_multishape), at, above and below the sentinel
LossVals == {2, 5, 1000000}

\* change of the latent code by one optimizer step
StepVals == {0, 1}

Pow5(p) == p * p * p * p * p

\* line 151: args.args.lr > args.lr * (args.lr_multiplier)**5, both sides
\* multiplied by 2**5; args.args is the same object when it exists
AdamPhase(a) == a.lr * 32 > a.lr * Pow5(a.lr_multiplier)

\* line 191 with <= for <
Improved_OrEqual(loss, best) == loss <= best

\* line 191
Improved(loss, best) == loss < best

\* args.clamp and args.clamp_value (in units of 0.0001): the defaults (off,
\* 0.1) and clamping on at 0.0005
ClampConfigs == { <<FALSE, 1000>>, <<TRUE, 5>> }

\* sdf_gt_array as get_data has it at line 84 (near-surface values, two samples)
GtPool == { <<-9, 3>>, <<7, 0>> }

\* model(x): the decoder's output for the two samples
PredPool == { <<-20, 4>>, <<2, 6>> }

\* the state_dict in weights.pt
CheckpointPool == { 7 }

\* results_dict['train']['best_latent_codes'], one code per training class
ResultsDictPool == { <<3, 5>>, <<2, 2>> }

\* values torch.normal(0, 0.01, size=(1, latent_size)) can return
NormalDraws == { 0, 1 }

\* torch.clamp with the lower bound only
Clamp_LowerOnly(t, lo, hi) ==
    [k \in DOMAIN t |-> IF t[k] < lo THEN lo ELSE t[k]]

\* torch.clamp(t, lo, hi): min(max(t, lo), hi), element by element
Clamp(t, lo, hi) ==
    [k \in DOMAIN t |->
        LET raised == IF t[k] < lo THEN lo ELSE t[k]
        IN  IF raised > hi THEN hi ELSE raised]

\* if args.clamp: t = torch.clamp(t, -args.clamp_value, args.clamp_value)
\* (lines 86-87, 157-158, 179-180)
ClampIfEnabled(a, t) ==
    IF a.clamp THEN Clamp(t, -a.clamp_value, a.clamp_value) ELSE t

\* lines 20-25: a fresh normal draw; results_dict is not read
initialise_latent_code(rd, draw) == draw

\* the parameters optim_adam holds (line 131), with the decoder's added
AdamParams_WithDecoder == {"latent_code", "decoder"}

\* the parameters optim_adam holds (line 131)
AdamParams == {"latent_code"}

\* the parameters optim_lbfgs holds (line 132)
LbfgsParams == {"latent_code"}

\* optimizer.step(): a tensor moves only if the optimizer holds it
Stepped(value, name, params, d) == IF name \in params THEN value - d ELSE value

\* one SDFLoss_multishape call: the ground truth, the predictions passed, the
\* decoder's output they come from and the latent part of the input x
LossCall(a, gt, out, latent) ==
    [sdf_gt |-> gt, predictions |-> ClampIfEnabled(a, out), model_output |-> out,
     latent |-> latent]

\* the object main receives: the Namespace parse_args() returns has no
\* attribute "args" (has_args FALSE); has_args TRUE is a caller's object whose
\* attribute "args" is the object itself
InferInit ==
    /\ \E h \in BOOLEAN, l \in LrVals, m \in LrMultiplierHalves,
          e \in 0 .. MaxInferEpochs, sch \in BOOLEAN, cl \in ClampConfigs :
          args = [has_args |-> h, lr |-> l, lr_multiplier |-> m, epochs |-> e,
                  lr_scheduler |-> sch, clamp |-> cl[1], clamp_value |-> cl[2]]
    /\ checkpoint \in CheckpointPool
    /\ decoder = checkpoint
    /\ results_dict \in ResultsDictPool
    /\ normal_draw \in NormalDraws
    /\ latent_code = initialise_latent_code(results_dict, normal_draw)
    /\ gt_before_clamp \in GtPool
    /\ sdf_gt = ClampIfEnabled(args, gt_before_clamp)
    /\ loss_calls = <<>>
    /\ ipc = "loop"
    /\ i_epoch = 0
    /\ x_latent = 0
    /\ loss_value = 0
    /\ best_loss = BestLossInit
    /\ best_latent_code = <<>>
    /\ latent_code_pt = <<>>
    /\ scheduler_steps = 0
    /\ phases = <<>>
    /\ losses = <<>>
    /\ clone_epochs = {}
    /\ TrainIdle /\ DataIdle /\ MeshIdle /\ XformIdle

\* lines 146-151: next epoch, tile the latent code into x, choose the phase;
\* evaluating args.args raises AttributeError on an object without that attribute
EpochHead ==
    /\ ipc = "loop"
    /\ IF i_epoch < args.epochs
         THEN /\ x_latent' = latent_code
              /\ ipc' = IF ~args.has_args THEN "AttributeError"
                        ELSE IF AdamPhase(args) THEN "adam" ELSE "lbfgs"
         ELSE /\ ipc' = "save"
              /\ UNCHANGED x_latent
    /\ UNCHANGED <<args, i_epoch, latent_code, loss_value, best_loss, best_latent_code,
                   latent_code_pt, scheduler_steps, phases, losses, clone_epochs>>
    /\ UNCHANGED <<sdf_gt, gt_before_clamp, loss_calls, decoder, checkpoint, results_dict,
                   normal_draw>>
    /\ UNCHANGED <<trainVars, dataVars, meshVars, xformVars>>

\* lines 153-168: the loss of x (predictions clamped if enabled), then one
\* Adam step on the tensors optim_adam holds
AdamEpoch ==
    /\ ipc = "adam"
    /\ \E out \in PredPool : loss_calls' = << LossCall(args, sdf_gt, out, x_latent) >>
    /\ \E l \in LossVals : loss_value' = l
    /\ \E d \in StepVals :
          /\ latent_code' = Stepped(latent_code, "latent_code", AdamParams, d)
          /\ decoder' = Stepped(decoder, "decoder", AdamParams, d)
    /\ phases' = Append(phases, "adam")
    /\ ipc' = "track"
    /\ UNCHANGED <<sdf_gt, gt_before_clamp, checkpoint, results_dict, normal_draw>>
    /\ UNCHANGED <<args, i_epoch, x_latent, best_loss, best_latent_code, latent_code_pt,
                   scheduler_steps, losses, clone_epochs>>
    /\ UNCHANGED <<trainVars, dataVars, meshVars, xformVars>>

\* lines 172-189: switch the scheduler off, LBFGS step (which calls the
\* closure), then the closure once more for the loss; both closure calls read
\* the x of line 148
LbfgsEpoch ==
    /\ ipc = "lbfgs"
    /\ args' = [args EXCEPT !.lr_scheduler = FALSE]
    /\ \E out1, out2 \in PredPool :
          loss_calls' = << LossCall(args, sdf_gt, out1, x_latent),
                           LossCall(args, sdf_gt, out2, x_latent) >>
    /\ \E d \in StepVals :
          /\ latent_code' = Stepped(latent_code, "latent_code", LbfgsParams, d)
          /\ decoder' = Stepped(decoder, "decoder", LbfgsParams, d)
    /\ \E l \in LossVals : loss_value' = l
    /\ phases' = Append(phases, "lbfgs")
    /\ ipc' = "track"
    /\ UNCHANGED <<sdf_gt, gt_before_clamp, checkpoint, results_dict, normal_draw>>
    /\ UNCHANGED <<i_epoch, x_latent, best_loss, best_latent_code, latent_code_pt,
                   scheduler_steps, losses, clone_epochs>>
    /\ UNCHANGED <<trainVars, dataVars, meshVars, xformVars>>

\* lines 191-193
TrackBest ==
    /\ ipc = "track"
    /\ IF Improved(loss_value, best_loss)
         THEN /\ best_loss' = loss_value
              /\ best_latent_code' = <<latent_code>>
              /\ clone_epochs' = clone_epochs \cup {i_epoch}
         ELSE UNCHANGED <<best_loss, best_latent_code, clone_epochs>>
    /\ ipc' = "log"
    /\ UNCHANGED <<args, i_epoch, latent_code, x_latent, loss_value, latent_code_pt,
                   scheduler_steps, phases, losses>>
    /\ UNCHANGED <<sdf_gt, gt_before_clamp, loss_calls, decoder, checkpoint, results_dict,
                   normal_draw>>
    /\ UNCHANGED <<trainVars, dataVars, meshVars, xformVars>>

\* lines 196-206: step the scheduler if it is on, log the loss
SchedulerAndLog ==
    /\ ipc = "log"
    /\ scheduler_steps' = IF args.lr_scheduler THEN scheduler_steps + 1 ELSE scheduler_steps
    /\ losses' = Append(losses, loss_value)
    /\ i_epoch' = i_epoch + 1
    /\ ipc' = "loop"
    /\ loss_calls' = <<>>
    /\ UNCHANGED <<args, latent_code, x_latent, loss_value, best_loss, best_latent_code,
                   latent_code_pt, phases, clone_epochs>>
    /\ UNCHANGED <<sdf_gt, gt_before_clamp, decoder, checkpoint, results_dict, normal_draw>>
    /\ UNCHANGED <<trainVars, dataVars, meshVars, xformVars>>

\* lines 208-210: reading best_latent_code raises UnboundLocalError when no
\* epoch assigned it
SaveLatentCode ==
    /\ ipc = "save"
    /\ IF best_latent_code = <<>>
         THEN /\ ipc' = "UnboundLocalError"
              /\ UNCHANGED latent_code_pt
         ELSE /\ latent_code_pt' = best_latent_code
              /\ ipc' = "done"
    /\ UNCHANGED <<args, i_epoch, latent_code, x_latent, loss_value, best_loss,
                   best_latent_code, scheduler_steps, phases, losses, clone_epochs>>
    /\ UNCHANGED <<sdf_gt, gt_before_clamp, loss_calls, decoder, checkpoint, results_dict,
                   normal_draw>>
    /\ UNCHANGED <<trainVars, dataVars, meshVars, xformVars>>

InferNext ==
    \/ EpochHead
    \/ AdamEpoch
    \/ LbfgsEpoch
    \/ TrackBest
    \/ SchedulerAndLog
    \/ SaveLatentCode

SpecInfer == InferInit /\ [][InferNext]_vars

-----------------------------------------------------------------------------
(* get_data() of the inference script *)

MaxObjs == 2
MaxSamples == 3
MaxTouches == 2

\* lines 57-58: the band 0.001, in units of 0.0001
Band == 10

\* lines 73-74: the half-width 0.06, in units of 0.01
HalfWidth == 6

\* samples the sampler (sample_sdf_near_surface) can return: a point and its sdf
SamplePool ==
    { [c |-> <<0, 0, 0>>, s |-> 0],
      [c |-> <<6, 6, 6>>, s |-> 5],
      [c |-> <<7, 0, 0>>, s |-> -5],
      [c |-> <<0, -6, 0>>, s |-> 10] }

\* the spec's example: sdf values -0.01, -0.0005, 0, 0.0005, 0.01
ExampleSamples ==
    << [c |-> <<1, 0, 0>>, s |-> -100], [c |-> <<2, 0, 0>>, s |-> -5],
       [c |-> <<3, 0, 0>>, s |-> 0], [c |-> <<4, 0, 0>>, s |-> 5],
       [c |-> <<5, 0, 0>>, s |-> 100] >>

\* samples on both boundaries of the band and just inside them
BoundarySamples ==
    << [c |-> <<1, 1, 1>>, s |-> -10], [c |-> <<2, 2, 2>>, s |-> -9],
       [c |-> <<3, 3, 3>>, s |-> 9], [c |-> <<0, 0, 0>>, s |-> 10] >>

SampleSeqs ==
    UNION {[1 .. n -> SamplePool] : n \in 0 .. MaxSamples}
      \cup {ExampleSamples, BoundarySamples}

\* objs[i] for a Python list of n items: the position read; the caller has
\* checked i < n, and i < -n raises IndexError
ListIndex(n, i) == IF i >= 0 THEN i ELSE n + i

\* line 47: the index is used when this holds
UseIndex(i, n) == i # -1 /\ i < n

\* lines 57-58 with the boundaries of the band kept
NearSurface_Inclusive(sdf) == sdf <= Band /\ sdf >= -Band

\* lines 57-58: (sdf_temp < 0.001) & (sdf_temp > -0.001)
NearSurface(sdf) == sdf < Band /\ sdf > -Band

RECURSIVE Masked(_, _)
\* arr[mask] for a boolean mask: the members where the mask holds, in order
Masked(arr, mask) ==
    IF arr = <<>> THEN <<>>
    ELSE LET rest == Masked(Tail(arr), Tail(mask))
         IN  IF Head(mask) THEN <<Head(arr)>> \o rest ELSE rest

SurfaceMask(sdf) == [i \in 1 .. Len(sdf) |-> NearSurface(sdf[i])]

\* line 75 with any() for all(): some axis of the row is inside the cube
InCube_AnyAxis(p, centre) ==
    \E a \in 1 .. 3 : p[a] <= centre[a] + HalfWidth /\ p[a] >= centre[a] - HalfWidth

\* line 75: every axis of the row is inside the cube around centre
InCube(p, centre) ==
    \A a \in 1 .. 3 : p[a] <= centre[a] + HalfWidth /\ p[a] >= centre[a] - HalfWidth

CubeMask(coords, centre) == [i \in 1 .. Len(coords) |-> InCube(coords[i], centre)]

DataInit ==
    /\ \E n \in 1 .. MaxObjs, t \in 0 .. MaxTouches :
          \E i \in -(n + 1) .. n, cl \in ClampConfigs :
              dargs = [index_objs_dict |-> i, touches |-> t, num_objs |-> n,
                       clamp |-> cl[1], clamp_value |-> cl[2]]
    /\ dpc = "select"
    /\ random_obj = 0
    /\ chosen_by = "none"
    /\ coords_temp = <<>> /\ sdf_temp = <<>>
    /\ coords_array = <<>> /\ sdf_gt_array = <<>>
    /\ voxel_coords_all = <<>> /\ voxel_sdf_all = <<>>
    /\ touch_i = 0
    /\ retained = <<>>
    /\ centres = <<>>
    /\ sdf_gt_returned = <<>>
    /\ TrainIdle /\ InferIdle /\ MeshIdle /\ XformIdle

\* lines 46-50
SelectObject ==
    /\ dpc = "select"
    /\ IF UseIndex(dargs.index_objs_dict, dargs.num_objs)
         THEN IF dargs.index_objs_dict < -dargs.num_objs
                THEN /\ dpc' = "IndexError"
                     /\ UNCHANGED <<random_obj, chosen_by>>
                ELSE /\ random_obj' = ListIndex(dargs.num_objs, dargs.index_objs_dict)
                     /\ chosen_by' = "index"
                     /\ dpc' = "sample"
         ELSE /\ \E r \in 0 .. (dargs.num_objs - 1) : random_obj' = r
              /\ chosen_by' = "random"
              /\ dpc' = "sample"
    /\ UNCHANGED <<dargs, coords_temp, sdf_temp, coords_array, sdf_gt_array,
                   voxel_coords_all, voxel_sdf_all, touch_i, retained, centres>>
    /\ UNCHANGED sdf_gt_returned
    /\ UNCHANGED <<trainVars, inferVars, meshVars, xformVars>>

\* lines 55-58: sample the mesh, keep the near-surface samples
SampleAndFilter ==
    /\ dpc = "sample"
    /\ \E q \in SampleSeqs :
          /\ coords_temp' = [i \in 1 .. Len(q) |-> q[i].c]
          /\ sdf_temp' = [i \in 1 .. Len(q) |-> q[i].s]
    /\ coords_array' = Masked(coords_temp', SurfaceMask(sdf_temp'))
    /\ sdf_gt_array' = Masked(sdf_temp', SurfaceMask(sdf_temp'))
    /\ retained' = [i \in 1 .. Len(coords_array') |->
                       [c |-> coords_array'[i], s |-> sdf_gt_array'[i]]]
    /\ dpc' = "filtered"
    /\ UNCHANGED <<dargs, random_obj, chosen_by, voxel_coords_all, voxel_sdf_all,
                   touch_i, centres>>
    /\ UNCHANGED sdf_gt_returned
    /\ UNCHANGED <<trainVars, inferVars, meshVars, xformVars>>

\* lines 61-65: touches > 0, empty accumulators
BeginTouches ==
    /\ dpc = "filtered" /\ dargs.touches > 0
    /\ voxel_coords_all' = <<>>
    /\ voxel_sdf_all' = <<>>
    /\ dpc' = "touch_loop"
    /\ UNCHANGED <<dargs, random_obj, chosen_by, coords_temp, sdf_temp, coords_array,
                   sdf_gt_array, touch_i, retained, centres>>
    /\ UNCHANGED sdf_gt_returned
    /\ UNCHANGED <<trainVars, inferVars, meshVars, xformVars>>

\* line 61: touches = 0, all retained samples are used
NoTouches ==
    /\ dpc = "filtered" /\ ~(dargs.touches > 0)
    /\ dpc' = "tensors"
    /\ UNCHANGED <<dargs, random_obj, chosen_by, coords_temp, sdf_temp, coords_array,
                   sdf_gt_array, voxel_coords_all, voxel_sdf_all, touch_i, retained,
                   centres>>
    /\ UNCHANGED sdf_gt_returned
    /\ UNCHANGED <<trainVars, inferVars, meshVars, xformVars>>

\* lines 67-77: one touch; np.random.choice raises ValueError on an empty array
Touch ==
    /\ dpc = "touch_loop" /\ touch_i < dargs.touches
    /\ IF Len(coords_array) = 0
         THEN /\ dpc' = "ValueError"
              /\ UNCHANGED <<voxel_coords_all, voxel_sdf_all, touch_i, centres>>
         ELSE \E idx_centre \in 0 .. (Len(coords_array) - 1) :
                LET centre == coords_array[idx_centre + 1]
                    condition == CubeMask(coords_array, centre)
                IN  /\ voxel_coords_all' = voxel_coords_all \o Masked(coords_array, condition)
                    /\ voxel_sdf_all' = voxel_sdf_all \o Masked(sdf_gt_array, condition)
                    /\ centres' = Append(centres, idx_centre)
                    /\ touch_i' = touch_i + 1
                    /\ dpc' = "touch_loop"
    /\ UNCHANGED <<dargs, random_obj, chosen_by, coords_temp, sdf_temp, coords_array,
                   sdf_gt_array, retained>>
    /\ UNCHANGED sdf_gt_returned
    /\ UNCHANGED <<trainVars, inferVars, meshVars, xformVars>>

\* lines 79-81
EndTouches ==
    /\ dpc = "touch_loop" /\ touch_i = dargs.touches
    /\ coords_array' = voxel_coords_all
    /\ sdf_gt_array' = voxel_sdf_all
    /\ dpc' = "tensors"
    /\ UNCHANGED <<dargs, random_obj, chosen_by, coords_temp, sdf_temp, voxel_coords_all,
                   voxel_sdf_all, touch_i, retained, centres>>
    /\ UNCHANGED sdf_gt_returned
    /\ UNCHANGED <<trainVars, inferVars, meshVars, xformVars>>

\* lines 83-89: the tensors, sdf_gt clamped if args.clamp
ReturnData ==
    /\ dpc = "tensors"
    /\ sdf_gt_returned' = ClampIfEnabled(dargs, sdf_gt_array)
    /\ dpc' = "done"
    /\ UNCHANGED <<dargs, random_obj, chosen_by, coords_temp, sdf_temp, coords_array,
                   sdf_gt_array, voxel_coords_all, voxel_sdf_all, touch_i, retained,
                   centres>>
    /\ UNCHANGED <<trainVars, inferVars, meshVars, xformVars>>

DataNext ==
    \/ SelectObject
    \/ SampleAndFilter
    \/ BeginTouches
    \/ NoTouches
    \/ Touch
    \/ EndTouches
    \/ ReturnData

SpecData == DataInit /\ [][DataNext]_vars

-----------------------------------------------------------------------------
(* urdf_to_mesh() of utils/utils_mesh.py *)

MaxMeshes == 2

\* float32 holds every integer up to 2**24 and every second one above it
Float32Exact == 16777216

\* sub-meshes _as_mesh(trimesh.load(...)) can return: the vertex count and the
\* faces, each face three vertex indexes below the count
MeshPool ==
    { [n |-> 4, faces |-> << <<0, 1, 2>>, <<1, 2, 3>> >>],
      [n |-> 6, faces |-> << <<0, 1, 5>>, <<3, 4, 5>> >>],
      [n |-> 1, faces |-> << <<0, 0, 0>> >>],
      [n |-> 3, faces |-> << >>],
      [n |-> Float32Exact, faces |-> << <<0, 1, Float32Exact - 1>> >>] }

\* distance between neighbouring float32 values at n (0 <= n < 2**26)
Float32Spacing(n) ==
    IF n < Float32Exact THEN 1 ELSE IF n < 2 * Float32Exact THEN 2 ELSE 4

\* conversion of the integer n to float32: the nearest float32, ties to even
ToFloat32(n) ==
    LET sp == Float32Spacing(n)
        q == n \div sp
        r == n % sp
    IN  IF 2 * r < sp THEN q * sp
        ELSE IF 2 * r > sp THEN (q + 1) * sp
        ELSE IF q % 2 = 0 THEN q * sp ELSE (q + 1) * sp

RECURSIVE CumSum32(_)
\* np.cumsum(counts, dtype=np.float32): the running sums, each kept in float32
CumSum32(counts) ==
    IF counts = <<>> THEN <<>>
    ELSE LET init == CumSum32(SubSeq(counts, 1, Len(counts) - 1))
             prev == IF init = <<>> THEN 0 ELSE init[Len(init)]
         IN  Append(init, ToFloat32(prev + ToFloat32(counts[Len(counts)])))

\* line 32: np.insert(faces_offset, 0, 0)[:-1]
ShiftRight(q) == SubSeq(<<0>> \o q, 1, Len(q))

\* line 34: face + offset (in float64, exact here), cast to float32
OffsetFaces(fs, offset) ==
    [f \in 1 .. Len(fs) |-> [c \in 1 .. 3 |-> ToFloat32(fs[f][c] + offset)]]

RECURSIVE VStackFaces(_, _)
\* line 34: np.vstack over zip(faces_list, faces_offset)
VStackFaces(meshes, offsets) ==
    IF meshes = <<>> THEN <<>>
    ELSE VStackFaces(SubSeq(meshes, 1, Len(meshes) - 1), offsets)
           \o OffsetFaces(meshes[Len(meshes)].faces, offsets[Len(meshes)])

\* line 33: np.vstack(verts_list), as its blocks: sub-mesh k's rows, in order
VStackVerts(meshes) == [k \in 1 .. Len(meshes) |-> [mesh |-> k, n |-> meshes[k].n]]

MeshInit ==
    /\ mesh_list \in UNION {[1 .. n -> MeshPool] : n \in 0 .. MaxMeshes}
    /\ mpc = "start"
    /\ faces_offset = <<>>
    /\ verts = <<>>
    /\ faces = <<>>
    /\ TrainIdle /\ InferIdle /\ DataIdle /\ XformIdle

\* lines 29-32
ComputeOffsets ==
    /\ mpc = "start"
    /\ faces_offset' = ShiftRight(CumSum32([k \in 1 .. Len(mesh_list) |-> mesh_list[k].n]))
    /\ mpc' = "offsets"
    /\ UNCHANGED <<mesh_list, verts, faces>>
    /\ UNCHANGED <<trainVars, inferVars, dataVars, xformVars>>

\* line 33: np.vstack raises ValueError on an empty list
StackVerts ==
    /\ mpc = "offsets"
    /\ IF mesh_list = <<>>
         THEN /\ mpc' = "ValueError"
              /\ UNCHANGED verts
         ELSE /\ verts' = VStackVerts(mesh_list)
              /\ mpc' = "verts"
    /\ UNCHANGED <<mesh_list, faces_offset, faces>>
    /\ UNCHANGED <<trainVars, inferVars, dataVars, xformVars>>

\* lines 34-37
StackFaces ==
    /\ mpc = "verts"
    /\ faces' = VStackFaces(mesh_list, faces_offset)
    /\ mpc' = "done"
    /\ UNCHANGED <<mesh_list, faces_offset, verts>>
    /\ UNCHANGED <<trainVars, inferVars, dataVars, xformVars>>

MeshNext ==
    \/ ComputeOffsets
    \/ StackVerts
    \/ StackFaces

SpecMesh == MeshInit /\ [][MeshNext]_vars

-----------------------------------------------------------------------------
(* translate_rotate_mesh() of utils/utils_mesh.py *)

MaxPoses == 2

\* number_points of a call
PointCounts == {1, 2}

IdentityRotation == << <<1, 0, 0>>, <<0, 1, 0>>, <<0, 0, 1>> >>

\* rot_M_wrld_list entries: the identity, a quarter turn about z, a quarter
\* turn about x
RotationPool ==
    { IdentityRotation,
      << <<0, -1, 0>>, <<1, 0, 0>>, <<0, 0, 1>> >>,
      << <<1, 0, 0>>, <<0, 0, -1>>, <<0, 1, 0>> >> }

ZeroVector == <<0, 0, 0>>

\* pos_wrld_list entries
PositionPool == { ZeroVector, <<1, 2, 3>> }

\* obj_initial_pos
InitialPosPool == { ZeroVector, <<0, 0, 5>> }

\* points of a work-frame batch
PointPool == { <<1, 2, 3>>, <<0, -1, 4>> }

\* ndarray.transpose(0, 2, 1): swap the last two axes of every batch entry
Transpose021(arr) ==
    [k \in DOMAIN arr |->
        [j \in DOMAIN arr[k][1] |-> [i \in DOMAIN arr[k] |-> arr[k][i][j]]]]

RECURSIVE DotUpTo(_, _, _, _, _)
\* sum over l <= n of A[i][l] * B[l][j]
DotUpTo(A, B, i, j, n) ==
    IF n = 0 THEN 0 ELSE DotUpTo(A, B, i, j, n - 1) + A[i][n] * B[n][j]

\* the matrix product of every batch entry with the first entry of A
BatchMatMul_FirstRotation(A, B) ==
    [k \in DOMAIN A |->
        [i \in DOMAIN A[1] |->
            [j \in DOMAIN B[k][1] |-> DotUpTo(A[1], B[k], i, j, Len(B[k]))]]]

\* A @ B on stacks of matrices: the matrix product of entry k with entry k
BatchMatMul(A, B) ==
    [k \in DOMAIN A |->
        [i \in DOMAIN A[k] |->
            [j \in DOMAIN B[k][1] |-> DotUpTo(A[k], B[k], i, j, Len(B[k]))]]]

\* pos[:, np.newaxis, :] + arr: entry k of pos is added to every point of batch k
AddPerBatch(pos, arr) ==
    [k \in DOMAIN arr |->
        [n \in DOMAIN arr[k] |-> [i \in DOMAIN arr[k][n] |-> pos[k][i] + arr[k][n][i]]]]

\* arr - v: the vector v is subtracted from every point of every batch
SubtractVector(arr, v) ==
    [k \in DOMAIN arr |->
        [n \in DOMAIN arr[k] |-> [i \in DOMAIN arr[k][n] |-> arr[k][n][i] - v[i]]]]

XformInit ==
    /\ \E m \in 1 .. MaxPoses, n \in PointCounts :
          /\ pos_wrld_list \in [1 .. m -> PositionPool]
          /\ rot_M_wrld_list \in [1 .. m -> RotationPool]
          /\ pointclouds_list \in [1 .. m -> [1 .. n -> PointPool]]
    /\ obj_initial_pos \in InitialPosPool
    /\ given = [pos_wrld_list |-> pos_wrld_list, rot_M_wrld_list |-> rot_M_wrld_list,
                pointclouds_list |-> pointclouds_list, obj_initial_pos |-> obj_initial_pos]
    /\ xpc = "matmul"
    /\ arr_a = <<>> /\ arr_b = <<>> /\ arr_c = <<>> /\ pointcloud_wrld = <<>>
    /\ TrainIdle /\ InferIdle /\ DataIdle /\ MeshIdle

\* line 196
MatMul ==
    /\ xpc = "matmul"
    /\ arr_a' = BatchMatMul(rot_M_wrld_list, Transpose021(pointclouds_list))
    /\ xpc' = "transpose"
    /\ UNCHANGED <<pos_wrld_list, rot_M_wrld_list, pointclouds_list, obj_initial_pos,
                   arr_b, arr_c, pointcloud_wrld, given>>
    /\ UNCHANGED <<trainVars, inferVars, dataVars, meshVars>>

\* line 197
TransposeBack ==
    /\ xpc = "transpose"
    /\ arr_b' = Transpose021(arr_a)
    /\ xpc' = "translate"
    /\ UNCHANGED <<pos_wrld_list, rot_M_wrld_list, pointclouds_list, obj_initial_pos,
                   arr_a, arr_c, pointcloud_wrld, given>>
    /\ UNCHANGED <<trainVars, inferVars, dataVars, meshVars>>

\* line 198
Translate ==
    /\ xpc = "translate"
    /\ arr_c' = AddPerBatch(pos_wrld_list, arr_b)
    /\ xpc' = "subtract"
    /\ UNCHANGED <<pos_wrld_list, rot_M_wrld_list, pointclouds_list, obj_initial_pos,
                   arr_a, arr_b, pointcloud_wrld, given>>
    /\ UNCHANGED <<trainVars, inferVars, dataVars, meshVars>>

\* lines 199-200
SubtractInitialPos ==
    /\ xpc = "subtract"
    /\ pointcloud_wrld' = SubtractVector(arr_c, obj_initial_pos)
    /\ xpc' = "done"
    /\ UNCHANGED <<pos_wrld_list, rot_M_wrld_list, pointclouds_list, obj_initial_pos,
                   arr_a, arr_b, arr_c, given>>
    /\ UNCHANGED <<trainVars, inferVars, dataVars, meshVars>>

XformNext ==
    \/ MatMul
    \/ TransposeBack
    \/ Translate
    \/ SubtractInitialPos

SpecXform == XformInit /\ [][XformNext]_vars

-----------------------------------------------------------------------------
(* Claims about the training driver, checked under SpecTrain *)

Stopped == tpc \in {"done", "ZeroDivisionError"}

ShapeOK(codes) ==
    /\ DOMAIN codes = ClassIndexes
    /\ \A i \in ClassIndexes : DOMAIN codes[i] = 1 .. targs.latent_size

\* C1: a run configured with E >= 1 epochs ends normally with exactly E
\* training losses, E validation losses and E latent-code snapshots of shape
\* (num_classes, latent_size) in the results record, and with results.npy and
\* weights.pt both on disk.
C1_RunCompletes ==
    (Stopped /\ targs.epochs >= 1) =>
        /\ tpc = "done"
        /\ Len(results.train.loss) = targs.epochs
        /\ Len(results.val.loss) = targs.epochs
        /\ Len(results.train.latent_codes) = targs.epochs
        /\ \A k \in 1 .. Len(results.train.latent_codes) :
              ShapeOK(ArrayValue(results.train.latent_codes[k]))
        /\ results_npy.status = "complete"
        /\ weights_pt.status = "complete"

\* C2: between the masking loop and the optimizer steps the gradient row of
\* every class absent from the batch is zero and the row of every class in the
\* batch is what backward() left; with a single class the sole row is never
\* zeroed; the optimizer step leaves the latent-code rows of absent classes as
\* they were.
C2_GradientMasking ==
    /\ tpc = "optim" =>
          \A i \in ClassIndexes :
              /\ i \notin unique_latent_indexes_batch => grad[i] = ZeroRow
              /\ i \in unique_latent_indexes_batch => grad[i] = grad_backward[i]
    /\ (tpc = "optim" /\ targs.num_classes = 1) => grad[0] = grad_backward[0]
    /\ (tpc = "train_loop" /\ batch_i >= 1) =>
          \A i \in ClassIndexes :
              i \notin unique_latent_indexes_batch => latent_codes[i] = codes_before_step[i]

\* C2's case: a batch that leaves out a class whose row backward() made
\* non-zero, and holds a class with a non-zero row, has been masked.
C2_Witness ==
    /\ tpc = "optim"
    /\ \E i \in ClassIndexes :
          i \notin unique_latent_indexes_batch /\ grad_backward[i] # ZeroRow
    /\ \E i \in ClassIndexes :
          i \in unique_latent_indexes_batch /\ grad[i] # ZeroRow

\* C3: the latent-code snapshot recorded for an epoch keeps, at every later
\* point of the run, the value the matrix had at the end of that epoch's
\* training pass.
C3_SnapshotsIndependent ==
    \A k \in 1 .. Len(results.train.latent_codes) :
        ArrayValue(results.train.latent_codes[k]) = epoch_end_codes[k]

CompleteEpochs(file) == IF file.status = "complete" THEN file.epochs ELSE 0

InWriteWindow == tpc \in {"writing_results", "save_weights", "writing_weights"}

InTrainingPass == tpc \in {"train_loop", "mask", "optim"}

\* C4: wherever the run is interrupted, results.npy and weights.pt on disk
\* were written in the same epoch (results.npy never records more completed
\* epochs than weights.pt reflects), and the writes of epoch i precede the
\* training pass of epoch i+1.
C4_DurablePair ==
    /\ (results_npy.status # "absent" /\ weights_pt.status # "absent") =>
          CompleteEpochs(results_npy) = CompleteEpochs(weights_pt)
    /\ CompleteEpochs(results_npy) <= CompleteEpochs(weights_pt)
    /\ InTrainingPass =>
          (CompleteEpochs(results_npy) = epoch /\ CompleteEpochs(weights_pt) = epoch)

\* C4 as amended: outside an epoch's write window the two files are the
\* complete pair of the last finished epoch (both absent before the first);
\* inside the window results.npy is incomplete or exactly one epoch ahead of
\* weights.pt, and weights.pt is the previous epoch's or incomplete; the
\* writes of epoch i precede the training pass of epoch i+1.
C4_Amended ==
    /\ ~InWriteWindow =>
          /\ epoch = 0 => (results_npy = Absent /\ weights_pt = Absent)
          /\ CompleteEpochs(results_npy) = epoch
          /\ CompleteEpochs(weights_pt) = epoch
    /\ tpc = "writing_results" =>
          (results_npy.status = "partial" /\ CompleteEpochs(weights_pt) = epoch)
    /\ tpc = "save_weights" =>
          (CompleteEpochs(results_npy) = epoch + 1 /\ CompleteEpochs(weights_pt) = epoch)
    /\ tpc = "writing_weights" =>
          (CompleteEpochs(results_npy) = epoch + 1 /\ weights_pt.status = "partial")
    /\ InTrainingPass =>
          (CompleteEpochs(results_npy) = epoch /\ CompleteEpochs(weights_pt) = epoch)

\* C4's case: the run is interrupted between the two writes of its second
\* epoch, with the first epoch's weights.pt still on disk.
C4_Witness ==
    /\ interrupted
    /\ tpc = "save_weights"
    /\ results_npy.status = "complete" /\ results_npy.epochs = 2
    /\ weights_pt.status = "complete" /\ weights_pt.epochs = 1

-----------------------------------------------------------------------------
(* Claims about the prediction loop, checked under SpecInfer *)

LoopLeft == ipc \in {"save", "done", "AttributeError", "UnboundLocalError"}

\* the phase the comparison of the configured values selects
ConfiguredPhase == IF args.lr * 32 > args.lr * Pow5(args.lr_multiplier) THEN "adam" ELSE "lbfgs"

\* C5: every epoch runs the phase that lr > lr * lr_multiplier^5 selects on
\* the configured values; a quasi-Newton epoch leaves the scheduler off, it is
\* followed only by quasi-Newton epochs and the scheduler is not stepped
\* again; the loop completes all configured epochs.
C5_PhaseRule ==
    /\ \A k \in 1 .. Len(phases) : phases[k] = ConfiguredPhase
    /\ \A k \in 1 .. Len(phases) :
          phases[k] = "lbfgs" => (~args.lr_scheduler /\ scheduler_steps = 0)
    /\ \A j, k \in 1 .. Len(phases) : (j < k /\ phases[j] = "lbfgs") => phases[k] = "lbfgs"
    /\ LoopLeft => (i_epoch = args.epochs /\ Len(phases) = args.epochs)

RECURSIVE MinOf(_, _)
\* the least of b and the first n members of sequence q
MinOf(b, q) ==
    IF q = <<>> THEN b
    ELSE LET m == MinOf(b, SubSeq(q, 1, Len(q) - 1))
         IN  IF q[Len(q)] < m THEN q[Len(q)] ELSE m

\* C6: after each epoch best_loss is the least of the sentinel 1,000,000 and
\* the losses logged so far, and the latent code was cloned in exactly the
\* epochs whose loss was strictly below the best loss before them.
C6_BestLoss ==
    /\ ipc = "loop" => best_loss = MinOf(BestLossInit, losses)
    /\ ipc = "log" => best_loss = MinOf(BestLossInit, Append(losses, loss_value))
    /\ ipc = "loop" =>
          clone_epochs = {k \in 0 .. (Len(losses) - 1) :
                             losses[k + 1] < MinOf(BestLossInit, SubSeq(losses, 1, k))}

\* C6's case: three epochs have run, the first improved on the sentinel and
\* was cloned, the second repeated the best loss and the third was higher,
\* and neither was cloned.
C6_Witness ==
    /\ ipc = "loop"
    /\ Len(losses) = 3
    /\ losses[1] < BestLossInit
    /\ losses[2] = losses[1]
    /\ losses[3] > losses[1]
    /\ clone_epochs = {0}

-----------------------------------------------------------------------------
(* Claims about get_data, checked under SpecData *)

ValidIndex == 0 <= dargs.index_objs_dict /\ dargs.index_objs_dict < dargs.num_objs

\* C7: object selection never fails on the index: a valid index (0 <= index <
\* number of objects) selects that object, and every other integer makes the
\* choice a random one.
C7_IndexFallback ==
    dpc # "select" =>
        /\ dpc # "IndexError"
        /\ ValidIndex => (chosen_by = "index" /\ random_obj = dargs.index_objs_dict)
        /\ ~ValidIndex => chosen_by = "random"

Abs(n) == IF n < 0 THEN -n ELSE n

\* the retained samples within 0.06 of the centre on every axis, in order
RECURSIVE TouchedBy(_, _)
TouchedBy(samples, centre) ==
    IF samples = <<>> THEN <<>>
    ELSE LET r == Head(samples)
             rest == TouchedBy(Tail(samples), centre)
         IN  IF Abs(r.c[1] - centre[1]) <= 6 /\ Abs(r.c[2] - centre[2]) <= 6
                  /\ Abs(r.c[3] - centre[3]) <= 6
               THEN <<r>> \o rest
               ELSE rest

RECURSIVE AllTouched(_)
\* the samples of the first touches, touch after touch
AllTouched(cs) ==
    IF cs = <<>> THEN <<>>
    ELSE AllTouched(SubSeq(cs, 1, Len(cs) - 1))
           \o TouchedBy(retained, retained[cs[Len(cs)] + 1].c)

Paired(coords, sdf) == [i \in 1 .. Len(coords) |-> [c |-> coords[i], s |-> sdf[i]]]

\* how many members of sequence q equal r
Occurrences(q, r) == Cardinality({i \in 1 .. Len(q) : q[i] = r})

\* C8: with touches > 0 the samples accumulated for a touch are exactly the
\* retained samples inside the cube of half-width 0.06 around its centre
\* (the centre among them), each coordinate with its own sdf value, and the
\* final batch is the concatenation over all touches, duplicates kept: a
\* retained sample occurs once for every touch whose cube contains it.
C8_TouchCubes ==
    /\ dpc = "touch_loop" =>
          /\ Len(voxel_coords_all) = Len(voxel_sdf_all)
          /\ Paired(voxel_coords_all, voxel_sdf_all) = AllTouched(centres)
    /\ (dpc = "tensors" /\ dargs.touches > 0) =>
          LET batch == Paired(coords_array, sdf_gt_array)
          IN  /\ Len(coords_array) = Len(sdf_gt_array)
              /\ batch = AllTouched(centres)
              /\ \A k \in 1 .. Len(centres) :
                    Occurrences(TouchedBy(retained, retained[centres[k] + 1].c),
                                retained[centres[k] + 1]) >= 1
              /\ \A i \in 1 .. Len(retained) :
                    Occurrences(retained, retained[i]) = 1 =>
                        Occurrences(batch, retained[i])
                          = Cardinality({k \in 1 .. Len(centres) :
                                \A a \in 1 .. 3 :
                                    Abs(retained[i].c[a] - retained[centres[k] + 1].c[a]) <= 6})

\* C8's case: two touches with different centres have been accumulated, a
\* retained sample lies in both cubes and another lies in only one.
C8_Witness ==
    /\ dpc = "tensors"
    /\ Len(centres) = 2
    /\ centres[1] # centres[2]
    /\ \E i \in 1 .. Len(retained) :
          Occurrences(Paired(coords_array, sdf_gt_array), retained[i]) = 2
    /\ \E i \in 1 .. Len(retained) :
          Occurrences(Paired(coords_array, sdf_gt_array), retained[i]) = 1

\* the samples whose sdf is strictly inside (-0.001, 0.001), in order
RECURSIVE StrictlyInside(_)
StrictlyInside(samples) ==
    IF samples = <<>> THEN <<>>
    ELSE IF -10 < Head(samples).s /\ Head(samples).s < 10
           THEN <<Head(samples)>> \o StrictlyInside(Tail(samples))
           ELSE StrictlyInside(Tail(samples))

\* C9: the near-surface filter keeps exactly the samples whose sdf is strictly
\* inside (-0.001, 0.001), each coordinate with its own sdf, in the sampler's
\* order; sdf values [-0.01, -0.0005, 0, 0.0005, 0.01] keep the middle three.
C9_NearSurfaceFilter ==
    dpc = "filtered" =>
        /\ Len(coords_array) = Len(sdf_gt_array)
        /\ Paired(coords_array, sdf_gt_array) = StrictlyInside(Paired(coords_temp, sdf_temp))
        /\ \A i \in 1 .. Len(sdf_gt_array) : sdf_gt_array[i] \notin {-10, 10}
        /\ sdf_temp = <<-100, -5, 0, 5, 100>> => sdf_gt_array = <<-5, 0, 5>>

\* C9's case: the sampler returned a sample on each boundary of the band and
\* samples inside it, and the filter has dropped just the two.
C9_Witness ==
    /\ dpc = "filtered"
    /\ \E i \in 1 .. Len(sdf_temp) : sdf_temp[i] = 10
    /\ \E i \in 1 .. Len(sdf_temp) : sdf_temp[i] = -10
    /\ Len(sdf_gt_array) = Len(sdf_temp) - 2

-----------------------------------------------------------------------------
(* Claims about urdf_to_mesh, checked under SpecMesh *)

RECURSIVE VertsBefore(_)
\* vertices of the sub-meshes before sub-mesh k
VertsBefore(k) == IF k <= 1 THEN 0 ELSE VertsBefore(k - 1) + mesh_list[k - 1].n

RECURSIVE FacesBefore(_)
\* faces of the sub-meshes before sub-mesh k
FacesBefore(k) == IF k <= 1 THEN 0 ELSE FacesBefore(k - 1) + Len(mesh_list[k - 1].faces)

RECURSIVE RowOf(_, _, _)
\* the vertex row j of the stacked blocks holds: <<sub-mesh, its vertex index>>
RowOf(blocks, b, j) ==
    IF b > Len(blocks) THEN <<0, 0>>
    ELSE IF j < blocks[b].n THEN <<blocks[b].mesh, j>>
    ELSE RowOf(blocks, b + 1, j - blocks[b].n)

\* sub-mesh k's faces in the merged array are its own, shifted by the vertex
\* count of the sub-meshes before it, and point at the vertices they did
FacesShifted(k) ==
    \A f \in 1 .. Len(mesh_list[k].faces) : \A c \in 1 .. 3 :
        LET local == mesh_list[k].faces[f][c]
            merged == faces[FacesBefore(k) + f][c]
        IN  /\ merged = local + VertsBefore(k)
            /\ merged >= 0 /\ merged < VertsBefore(Len(mesh_list) + 1)
            /\ RowOf(verts, 1, merged) = <<k, local>>

\* C10: the merged faces are the sub-meshes' faces in order, sub-mesh k's
\* indexes shifted by the vertex count of sub-meshes before it; the merged
\* vertex array is the sub-meshes' vertices in order; every merged index is a
\* row of the merged vertex array and the vertex it was before merging.
C10_FaceOffsets ==
    mpc = "done" =>
        /\ Len(faces) = FacesBefore(Len(mesh_list) + 1)
        /\ verts = [k \in 1 .. Len(mesh_list) |-> [mesh |-> k, n |-> mesh_list[k].n]]
        /\ \A k \in 1 .. Len(mesh_list) : FacesShifted(k)

\* C10 for meshes float32 can index: the same, when the merged mesh has at
\* most 2**24 vertices.
C10_UpToFloat32Exact ==
    (mpc = "done" /\ VertsBefore(Len(mesh_list) + 1) <= Float32Exact) =>
        /\ Len(faces) = FacesBefore(Len(mesh_list) + 1)
        /\ \A k \in 1 .. Len(mesh_list) : FacesShifted(k)


-----------------------------------------------------------------------------
(* C13: a validation pass (Trainer.validate, lines 138-153, and the append of
   line 62) performs no optimizer step and no gradient zeroing: every step
   taken while the trainer is in the validation pass leaves the latent-code
   matrix, the decoder's parameters and the stored gradients as they are, and
   changes the results record at most by appending one validation loss. *)

InValidation == tpc = "val_loop"

ValLossAppended ==
    \E l \in 0 .. 1 : results' = [results EXCEPT !.val.loss = Append(@, l)]

C13_ValidationFrame ==
    [][InValidation =>
          /\ latent_codes' = latent_codes
          /\ model' = model
          /\ grad' = grad
          /\ results' = results \/ (tpc' = "save_results" /\ ValLossAppended)]_vars

\* a validation batch has run while a non-zero gradient of the training pass
\* is still stored (an optimizer step would move the latent codes)
C13_Witness ==
    /\ tpc = "val_loop" /\ batch_i >= 1
    /\ \E i \in ClassIndexes : grad[i] # ZeroRow


-----------------------------------------------------------------------------
(* C12: translate_rotate_mesh returns, for every touch m and every point p of
   that touch's batch, R_m * p + pos_wrld_m - obj_initial_pos, computed from
   touch m's own rotation and position; with identity rotations, zero
   positions and a zero initial position the point cloud comes back
   unchanged; the four arguments keep the values they were passed with. *)

\* R * p for a 3x3 matrix and a point
Rotated(R, p) == [i \in 1 .. 3 |-> R[i][1] * p[1] + R[i][2] * p[2] + R[i][3] * p[3]]

WorldPoint(m, p) ==
    [i \in 1 .. 3 |->
        Rotated(given.rot_M_wrld_list[m], p)[i] + given.pos_wrld_list[m][i]
            - given.obj_initial_pos[i]]

IdentityCall ==
    /\ \A m \in DOMAIN given.rot_M_wrld_list :
          /\ given.rot_M_wrld_list[m] = IdentityRotation
          /\ given.pos_wrld_list[m] = ZeroVector
    /\ given.obj_initial_pos = ZeroVector

InputsKept ==
    /\ pos_wrld_list = given.pos_wrld_list
    /\ rot_M_wrld_list = given.rot_M_wrld_list
    /\ pointclouds_list = given.pointclouds_list
    /\ obj_initial_pos = given.obj_initial_pos

C12_WorkToWorld ==
    /\ xpc # "idle" => InputsKept
    /\ xpc = "done" =>
          /\ DOMAIN pointcloud_wrld = DOMAIN given.pointclouds_list
          /\ \A m \in DOMAIN pointcloud_wrld :
                /\ DOMAIN pointcloud_wrld[m] = DOMAIN given.pointclouds_list[m]
                /\ \A n \in DOMAIN pointcloud_wrld[m] :
                      pointcloud_wrld[m][n] = WorldPoint(m, given.pointclouds_list[m][n])
          /\ IdentityCall => pointcloud_wrld = given.pointclouds_list

\* two touches with different rotations and positions, two points each, and
\* a non-zero initial position
C12_Witness ==
    /\ xpc = "done"
    /\ Len(given.rot_M_wrld_list) = 2
    /\ given.rot_M_wrld_list[1] # given.rot_M_wrld_list[2]
    /\ given.rot_M_wrld_list[1] # IdentityRotation
    /\ given.rot_M_wrld_list[2] # IdentityRotation
    /\ given.pos_wrld_list[1] # given.pos_wrld_list[2]
    /\ Len(given.pointclouds_list[1]) = 2
    /\ given.obj_initial_pos # ZeroVector


-----------------------------------------------------------------------------
(* C11: with clamping enabled, every loss computation of the prediction loop
   (the Adam phase, the LBFGS closure inside the step and the closure call
   after the step) receives a ground truth and predictions that lie in
   [-clamp_value, clamp_value], each the clipped value of the original; with
   clamping disabled neither is modified; clamping a clamped tensor again
   with the same magnitude changes nothing. *)

\* v clipped to [-c, c]
Clipped(v, c) == IF v < -c THEN -c ELSE IF v > c THEN c ELSE v

ClippedFrom(t, original, c) ==
    /\ DOMAIN t = DOMAIN original
    /\ \A k \in DOMAIN t : t[k] = Clipped(original[k], c) /\ -c <= t[k] /\ t[k] <= c

ClampMagnitudes == {0, 5, 1000}

C11_Clamping ==
    /\ ipc # "idle" =>
          /\ args.clamp => ClippedFrom(sdf_gt, gt_before_clamp, args.clamp_value)
          /\ ~args.clamp => sdf_gt = gt_before_clamp
          /\ \A n \in DOMAIN loss_calls :
                /\ loss_calls[n].sdf_gt = sdf_gt
                /\ args.clamp => ClippedFrom(loss_calls[n].predictions,
                                             loss_calls[n].model_output, args.clamp_value)
                /\ ~args.clamp => loss_calls[n].predictions = loss_calls[n].model_output
                /\ ClampIfEnabled(args, loss_calls[n].predictions) = loss_calls[n].predictions
                /\ ClampIfEnabled(args, loss_calls[n].sdf_gt) = loss_calls[n].sdf_gt
    /\ (ipc = "loop" /\ i_epoch = 0) =>
          \A t \in GtPool \cup PredPool, c \in ClampMagnitudes :
              Clamp(Clamp(t, -c, c), -c, c) = Clamp(t, -c, c)

\* an LBFGS epoch with clamping on: two loss computations, the ground truth
\* and the predictions of both were clipped from above or below
C11_Witness ==
    /\ ipc = "track"
    /\ args.clamp
    /\ Len(loss_calls) = 2
    /\ sdf_gt # gt_before_clamp
    /\ loss_calls[1].predictions # loss_calls[1].model_output
    /\ loss_calls[2].predictions # loss_calls[2].model_output
    /\ loss_calls[1].model_output # loss_calls[2].model_output


-----------------------------------------------------------------------------
(* C14: the decoder is frozen during the whole inference run: neither
   optimizer holds a decoder parameter, so after any number of epochs of
   either phase the decoder's parameters equal the checkpoint loaded at the
   start; the optimizers hold the one fresh latent code only, and its initial
   value is the normal draw whatever results_dict was loaded. *)

-----------------------------------------------------------------------------
(* C15: for every configuration (any epochs >= 0, any losses) the epoch loop
   ends with best_latent_code assigned, and latent_code.pt is written from
   it: the save of lines 208-210 never finds the name unbound. *)

C15_BestDefined ==
    /\ ipc = "save" => best_latent_code # <<>>
    /\ ipc # "UnboundLocalError"
    /\ ipc = "done" => (latent_code_pt # <<>> /\ latent_code_pt = best_latent_code)

-----------------------------------------------------------------------------
(* C16: the latent code kept as best is the one that attained the best loss:
   in an epoch that updates best_loss, the value cloned into best_latent_code
   is the latent code that was tiled into the input x of that epoch's loss
   computations, in the Adam phase and in the LBFGS phase. *)

=============================================================================
